---- MODULE Spec2Model ----
(***************************************************************************)
(* Quote-retrieval layer of the Optimus stock API.  The repository ships   *)
(* four variants of the same service:                                      *)
(*   "app_fastapi" : src/backend-api/app_fastapi.py  (strict, retry)       *)
(*   "app"         : src/backend-api/app.py          (fallback-capable)    *)
(*   "app_simple"  : src/backend-api/app_simple.py   (strict)              *)
(*   "backend_app" : src/backend-api/backend-api/app.py (strict)           *)
(* Strings are TLA+ strings; money is an integer number of cents; time is  *)
(* an integer number of seconds.                                           *)
(***************************************************************************)
EXTENDS Integers, Sequences, FiniteSets, TLC

VARIABLES variant, cache, now, ticks, resp, calls, retry, flights

vars == <<variant, cache, now, ticks, resp, calls, retry, flights>>

(***************************************************************************)
(* Bounds of the model.                                                    *)
(***************************************************************************)
MaxTicks == 2
MaxRetries == 3
MaxHandlers == 2

(***************************************************************************)
(* Program constants.                                                      *)
(***************************************************************************)
DEFAULT_MAX_RETRIES == 3
MAX_SYMBOLS == 20
DEFAULT_BASE_PRICE == 2500
YF_SYMBOL_MAX_LEN == 6

Variants == {"app_fastapi", "app", "app_simple", "backend_app"}

CACHE_DURATION(v) == IF v = "app_fastapi" THEN 600 ELSE 300

(***************************************************************************)
(* Python string operations.                                               *)
(***************************************************************************)
LowerCase == "abcdefghijklmnopqrstuvwxyz"
UpperCase == "ABCDEFGHIJKLMNOPQRSTUVWXYZ"

Char(s, i) == SubSeq(s, i, i)

UpperMap ==
    [c \in {Char(LowerCase, i) : i \in 1..Len(LowerCase)} |->
        Char(UpperCase, CHOOSE i \in 1..Len(LowerCase) : Char(LowerCase, i) = c)]

UpperChar(c) == IF c \in DOMAIN UpperMap THEN UpperMap[c] ELSE c

RECURSIVE upper(_)
upper(s) == IF Len(s) = 0 THEN "" ELSE UpperChar(Char(s, 1)) \o upper(SubSeq(s, 2, Len(s)))

Contains(s, p) == \E i \in 1..(Len(s) - Len(p) + 1) : SubSeq(s, i, i + Len(p) - 1) = p

endswith(s, p) == Len(s) >= Len(p) /\ SubSeq(s, Len(s) - Len(p) + 1, Len(s)) = p

startswith(s, p) == Len(s) >= Len(p) /\ SubSeq(s, 1, Len(p)) = p

RECURSIVE lstrip(_)
lstrip(s) == IF Len(s) > 0 /\ Char(s, 1) = " " THEN lstrip(SubSeq(s, 2, Len(s))) ELSE s

RECURSIVE rstrip(_)
rstrip(s) ==
    IF Len(s) > 0 /\ Char(s, Len(s)) = " " THEN rstrip(SubSeq(s, 1, Len(s) - 1)) ELSE s

strip(s) == rstrip(lstrip(s))

\* s.split(sep) for a separator of one character
RECURSIVE split(_, _)
split(s, sep) ==
    IF ~Contains(s, sep) THEN <<s>>
    ELSE LET i == CHOOSE j \in 1..Len(s) :
                    Char(s, j) = sep /\ \A k \in 1..(j - 1) : Char(s, k) # sep
         IN  <<SubSeq(s, 1, i - 1)>> \o split(SubSeq(s, i + 1, Len(s)), sep)

DigitChars == "0123456789"

RECURSIVE str(_)
str(n) == IF n < 10 THEN Char(DigitChars, n + 1)
          ELSE str(n \div 10) \o Char(DigitChars, (n % 10) + 1)

(***************************************************************************)
(* The upstream provider as seen through yfinance: one call of             *)
(* ticker.history() gives a non-empty frame (with or without the Close     *)
(* column), an empty frame, or raises an exception with some message.      *)
(* currency is what ticker.info reports (read by backend-api/backend-api/  *)
(* app.py only), "" when info has no such key.                             *)
(***************************************************************************)
HistIn(close, currency) ==
    [kind |-> "hist", close |-> close, has_close |-> TRUE, msg |-> "", currency |-> currency]
Hist(close) == HistIn(close, "")
HistNoClose ==
    [kind |-> "hist", close |-> <<>>, has_close |-> FALSE, msg |-> "", currency |-> ""]
EmptyHist ==
    [kind |-> "empty", close |-> <<>>, has_close |-> TRUE, msg |-> "", currency |-> ""]
Raises(msg) ==
    [kind |-> "exc", close |-> <<>>, has_close |-> TRUE, msg |-> msg, currency |-> ""]

CloseSeries == {<<1000>>, <<1000, 1050>>, <<0, 500>>}

UpstreamErrors == {"HTTP 429", "Too Many Requests", "timeout"}

YfOutcomes ==
    {Hist(c) : c \in CloseSeries} \cup {HistIn(<<1000, 1050>>, "USD")}
        \cup {HistNoClose, EmptyHist}
        \cup {Raises(m) : m \in UpstreamErrors}

(***************************************************************************)
(* app_fastapi.py, get_stock_data_with_retry: the retry controller.        *)
(***************************************************************************)
NoDataMessage(symbol, max_retries) ==
    "No data found for " \o symbol \o " after " \o str(max_retries) \o " attempts"

RateLimitMessage(symbol, max_retries) ==
    "Rate limit exceeded for " \o symbol \o " after " \o str(max_retries) \o " attempts"

FailedMessage(symbol) == "Failed to fetch " \o symbol \o " after all retries"

IsRateLimitError(msg) == Contains(msg, "429") \/ Contains(msg, "Too Many Requests")

IsLastAttempt(attempt, max_retries) == attempt = max_retries - 1

\* a delay taken before the first attempt too
SleepsBeforeEveryAttempt(attempt) == attempt >= 0

SleepsBefore(attempt) == attempt > 0

\* a backoff that grows by one second per attempt
delay_linear(attempt, jitter) == 1000 * attempt + jitter

\* delay = (2 ** attempt) + random.uniform(0, 1), in milliseconds; jitter is
\* the draw of uniform(0, 1) in thousandths
delay(attempt, jitter) == 1000 * (2 ^ attempt) + jitter

RetryStart(symbol, max_retries) ==
    [symbol |-> symbol, max_retries |-> max_retries, attempt |-> 0, calls |-> 0,
     events |-> <<>>, answers |-> <<>>,
     status |-> IF max_retries > 0 THEN "running" ELSE "raised",
     hist |-> EmptyHist, msg |-> IF max_retries > 0 THEN "" ELSE FailedMessage(symbol)]

RetryIdle ==
    [symbol |-> "", max_retries |-> 0, attempt |-> 0, calls |-> 0,
     events |-> <<>>, answers |-> <<>>, status |-> "idle", hist |-> EmptyHist,
     msg |-> ""]

\* a loop of one pass too many (range(max_retries + 1))
RetryContinueOnePastCap(st) ==
    IF st.attempt + 1 <= st.max_retries
    THEN [st EXCEPT !.attempt = @ + 1]
    ELSE [st EXCEPT !.status = "raised", !.msg = FailedMessage(st.symbol)]

\* the loop moves to the next attempt; past the last one it falls out of the
\* for statement and reaches the final raise
RetryContinue(st) ==
    IF st.attempt + 1 < st.max_retries
    THEN [st EXCEPT !.attempt = @ + 1]
    ELSE [st EXCEPT !.status = "raised", !.msg = FailedMessage(st.symbol)]

RetryRaise(st, msg) == [st EXCEPT !.status = "raised", !.msg = msg]

\* a handler that gives up at the first rate-limit signal
RetryHandlerNoRetry(st, msg) ==
    IF IsRateLimitError(msg)
    THEN RetryRaise(st, RateLimitMessage(st.symbol, st.max_retries))
    ELSE RetryRaise(st, msg)

\* a handler that takes every exception for a rate-limit signal
RetryHandlerRetryAll(st, msg) ==
    IF IsLastAttempt(st.attempt, st.max_retries)
    THEN RetryRaise(st, RateLimitMessage(st.symbol, st.max_retries))
    ELSE RetryContinue(st)

\* the except clause of the loop body, entered with the message of the
\* exception raised in the try block
RetryHandler(st, msg) ==
    IF IsRateLimitError(msg)
    THEN IF IsLastAttempt(st.attempt, st.max_retries)
         THEN RetryRaise(st, RateLimitMessage(st.symbol, st.max_retries))
         ELSE RetryContinue(st)
    ELSE RetryRaise(st, msg)

\* an iteration that takes attempt max_retries, not max_retries - 1, for the
\* last one of an empty result
RetryIterOnePastCap(st, o) ==
    LET called == [st EXCEPT !.calls = @ + 1,
                             !.answers = Append(@, o),
                             !.events = IF SleepsBefore(st.attempt)
                                        THEN @ \o <<"sleep", "call">>
                                        ELSE @ \o <<"call">>]
    IN  IF o.kind = "hist"
        THEN [called EXCEPT !.status = "returned", !.hist = o]
        ELSE IF o.kind = "empty"
        THEN IF IsLastAttempt(st.attempt, st.max_retries + 1)
             THEN RetryHandler(called, NoDataMessage(st.symbol, st.max_retries))
             ELSE RetryContinueOnePastCap(called)
        ELSE RetryHandler(called, o.msg)

\* one iteration of the for loop, the upstream answering o
RetryIter(st, o) ==
    LET called == [st EXCEPT !.calls = @ + 1,
                             !.answers = Append(@, o),
                             !.events = IF SleepsBefore(st.attempt)
                                        THEN @ \o <<"sleep", "call">>
                                        ELSE @ \o <<"call">>]
    IN  IF o.kind = "hist"
        THEN [called EXCEPT !.status = "returned", !.hist = o]
        ELSE IF o.kind = "empty"
        THEN IF IsLastAttempt(st.attempt, st.max_retries)
             THEN RetryHandler(called, NoDataMessage(st.symbol, st.max_retries))
             ELSE RetryContinue(called)
        ELSE RetryHandler(called, o.msg)

\* every way one call of get_stock_data_with_retry can end, the upstream
\* answering each attempt as it likes
RECURSIVE RetryRuns(_)
RetryRuns(st) ==
    IF st.status # "running"
    THEN {st}
    ELSE UNION {RetryRuns(RetryIter(st, o)) : o \in YfOutcomes}

(***************************************************************************)
(* Rounding to two decimals, on integers: n / d rounded to the nearest     *)
(* integer, ties to the even one (Python's round).                         *)
(***************************************************************************)
RoundDiv(n, d) ==
    LET q == n \div d
        r == n % d
    IN  IF 2 * r < d THEN q
        ELSE IF 2 * r > d THEN q + 1
        ELSE IF q % 2 = 0 THEN q ELSE q + 1

(***************************************************************************)
(* Quote normalisation of the yfinance variants.  Prices are cents, change *)
(* percent is in hundredths of a percent.                                  *)
(***************************************************************************)
ChangePercent(change, previous_close) ==
    IF previous_close # 0 THEN RoundDiv(change * 10000, previous_close) ELSE 0

YfSource(v) ==
    IF v = "app_fastapi" THEN "Yahoo Finance (yfinance with retry)"
    ELSE IF v = "app_simple" THEN "Yahoo Finance (yfinance)"
    ELSE "Yahoo Finance via yfinance"

\* backend-api/backend-api/app.py qualifies the symbol itself
yf_symbol(symbol) ==
    IF ~endswith(symbol, ".SA") /\ Len(symbol) <= YF_SYMBOL_MAX_LEN
    THEN symbol \o ".SA"
    ELSE symbol

cache_key(v, symbol) ==
    IF v = "app" THEN upper(symbol)
    ELSE IF v = "backend_app" THEN yf_symbol(symbol)
    ELSE upper(symbol) \o ".SA"

QuoteSymbol(v, symbol) == IF v = "backend_app" THEN symbol ELSE upper(symbol)

\* dict.get('currency', 'BRL')
CurrencyOr(currency) == IF currency = "" THEN "BRL" ELSE currency

\* backend-api/backend-api/app.py adds the qualified symbol to its quotes
WithYfSymbol(v, symbol, quote) ==
    IF v = "backend_app"
    THEN [f \in DOMAIN quote \cup {"yf_symbol"} |->
             IF f = "yf_symbol" THEN yf_symbol(symbol) ELSE quote[f]]
    ELSE quote

\* a normalisation that takes 0 for the previous close of a single observation
NormalizeQuoteZeroPrevious(v, symbol, raw, t) ==
    LET close == raw.close
        current_price == close[Len(close)]
        previous_close == IF Len(close) > 1 THEN close[Len(close) - 1] ELSE 0
        change == current_price - previous_close
    IN  WithYfSymbol(v, symbol,
            [symbol |-> QuoteSymbol(v, symbol),
             price |-> current_price,
             change |-> change,
             changePercent |-> ChangePercent(change, previous_close),
             currency |-> IF v = "backend_app" THEN CurrencyOr(raw.currency) ELSE "BRL",
             timestamp |-> t,
             source |-> YfSource(v),
             isMocked |-> FALSE])

NormalizeQuote(v, symbol, raw, t) ==
    LET close == raw.close
        current_price == close[Len(close)]
        previous_close == IF Len(close) > 1 THEN close[Len(close) - 1] ELSE current_price
        change == current_price - previous_close
    IN  WithYfSymbol(v, symbol,
            [symbol |-> QuoteSymbol(v, symbol),
             price |-> current_price,
             change |-> change,
             changePercent |-> ChangePercent(change, previous_close),
             currency |-> IF v = "backend_app" THEN CurrencyOr(raw.currency) ELSE "BRL",
             timestamp |-> t,
             source |-> YfSource(v),
             isMocked |-> FALSE])

\* what stands for the quote where a call raised instead of returning one
NoQuote ==
    [symbol |-> "", price |-> 0, change |-> 0, changePercent |-> 0, currency |-> "",
     timestamp |-> -1, source |-> "", isMocked |-> FALSE]

NoQuoteOf(v) ==
    IF v = "backend_app"
    THEN [f \in DOMAIN NoQuote \cup {"yf_symbol"} |->
             IF f = "yf_symbol" THEN "" ELSE NoQuote[f]]
    ELSE NoQuote

CloseMissingMessage(v, symbol) ==
    IF v = "app_fastapi" THEN "Close price not available for " \o symbol ELSE "'Close'"

(***************************************************************************)
(* The fetch stage of get_stock_data, per variant: what the upstream did   *)
(* during one refresh.  [status, raw, msg, calls]; raw is the frame of     *)
(* history() or the answer of the chart API.                               *)
(***************************************************************************)
Fetched(status, raw, msg, n) == [status |-> status, raw |-> raw, msg |-> msg, calls |-> n]

\* app_fastapi.py: the retry controller with its default attempt cap
FetchWithRetry(symbol) ==
    {Fetched(st.status, st.hist, st.msg, st.calls) :
        st \in RetryRuns(RetryStart(symbol, DEFAULT_MAX_RETRIES))}

\* the same call when the upstream gives the answer o at every attempt
RECURSIVE RetrySteady(_, _)
RetrySteady(st, o) ==
    IF st.status # "running" THEN st ELSE RetrySteady(RetryIter(st, o), o)

FetchWithRetrySteady(symbol, o) ==
    LET st == RetrySteady(RetryStart(symbol, DEFAULT_MAX_RETRIES), o)
    IN  Fetched(st.status, st.hist, st.msg, st.calls)

\* app_simple.py and backend-api/backend-api/app.py: one call of history()
SimpleNoDataMessage(v, symbol) ==
    IF v = "backend_app" THEN "No data found for symbol " \o yf_symbol(symbol)
    ELSE "No data found for " \o symbol

FetchOnceOn(v, symbol, o) ==
    IF o.kind = "hist" THEN Fetched("returned", o, "", 1)
    ELSE IF o.kind = "empty"
    THEN Fetched("raised", EmptyHist, SimpleNoDataMessage(v, symbol), 1)
    ELSE Fetched("raised", EmptyHist, o.msg, 1)

FetchOnce(v, symbol) == {FetchOnceOn(v, symbol, o) : o \in YfOutcomes}

(***************************************************************************)
(* app.py: the direct Yahoo chart API and the mock fallback.               *)
(***************************************************************************)
DirectIn(price, has_prev, prev, currency) ==
    [kind |-> "ok", price |-> price, has_prev |-> has_prev, prev |-> prev, msg |-> "",
     currency |-> currency]
DirectOk(price, has_prev, prev) == DirectIn(price, has_prev, prev, "")
DirectFails(kind, msg) ==
    [kind |-> kind, price |-> 0, has_prev |-> FALSE, prev |-> 0, msg |-> msg,
     currency |-> ""]

DirectOutcomes ==
    {DirectOk(1050, TRUE, 1000), DirectOk(1000, FALSE, 0), DirectOk(500, TRUE, 0),
     DirectIn(1050, TRUE, 1000, "USD"),
     DirectFails("status", "Yahoo API returned 429"),
     DirectFails("malformed", "Invalid Yahoo Finance response structure"),
     DirectFails("noprice", "No price data in Yahoo response"),
     DirectFails("neterr", "timeout")}

\* [ok, quote, msg]: the quote built from the chart API's answer o, or the
\* exception the function raises
get_stock_data_from_yahoo_direct(symbol, o, t) ==
    IF o.kind # "ok"
    THEN [ok |-> FALSE, quote |-> NoQuote, msg |-> o.msg]
    ELSE LET current_price == o.price
             previous_close == IF o.has_prev THEN o.prev ELSE current_price
             change == IF previous_close # 0 THEN current_price - previous_close ELSE 0
             change_percent == IF previous_close # 0
                               THEN RoundDiv(change * 10000, previous_close) ELSE 0
         IN  [ok |-> TRUE,
              quote |-> [symbol |-> upper(symbol), price |-> current_price,
                         change |-> change, changePercent |-> change_percent,
                         currency |-> CurrencyOr(o.currency), timestamp |-> t,
                         source |-> "Yahoo Finance Direct", isMocked |-> FALSE],
              msg |-> ""]

BasePriceSymbols ==
    {"PETR4", "VALE3", "ITUB4", "BBDC4", "ABEV3", "WEGE3", "MGLU3", "HYPE3",
     "TAEE11", "TOTS3", "CMIG4", "BRAP4"}

base_prices ==
    [s \in BasePriceSymbols |->
        CASE s = "PETR4" -> 3845 [] s = "VALE3" -> 5882 [] s = "ITUB4" -> 3225
          [] s = "BBDC4" -> 1312 [] s = "ABEV3" -> 1194 [] s = "WEGE3" -> 5195
          [] s = "MGLU3" -> 472 [] s = "HYPE3" -> 2298 [] s = "TAEE11" -> 3532
          [] s = "TOTS3" -> 2895 [] s = "CMIG4" -> 1092 [] s = "BRAP4" -> 3245]

BasePrice(symbol) ==
    IF upper(symbol) \in BasePriceSymbols THEN base_prices[upper(symbol)]
    ELSE DEFAULT_BASE_PRICE

\* random.random() in thousandths: a value of [0, 1)
RandomDraws == {0, 500, 999}

\* a generator that forgets to mark its quotes
get_mock_stock_data_unmarked(symbol, rnd, t) ==
    LET base_price == BasePrice(symbol)
        num == 4 * (rnd - 500)
    IN  [symbol |-> upper(symbol),
         price |-> RoundDiv(base_price * (100000 + num), 100000),
         change |-> RoundDiv(base_price * num, 100000),
         changePercent |-> RoundDiv(num, 10),
         currency |-> "BRL",
         timestamp |-> t,
         source |-> "Realistic Mock Data",
         isMocked |-> FALSE]

\* variation = (r - 0.5) * 0.04 with r = rnd / 1000
get_mock_stock_data(symbol, rnd, t) ==
    LET base_price == BasePrice(symbol)
        num == 4 * (rnd - 500)
    IN  [symbol |-> upper(symbol),
         price |-> RoundDiv(base_price * (100000 + num), 100000),
         change |-> RoundDiv(base_price * num, 100000),
         changePercent |-> RoundDiv(num, 10),
         currency |-> "BRL",
         timestamp |-> t,
         source |-> "Realistic Mock Data",
         isMocked |-> TRUE]

FetchDirect == {Fetched("called", o, "", 1) : o \in DirectOutcomes}

(***************************************************************************)
(* The environment of one refresh: what the fetch stage met upstream and   *)
(* the draw of the mock generator (drawn only when the mock is used).      *)
(***************************************************************************)
SymbolUniverse == {"PETR4", "petr4", "B", "VALE3", "PETR4.SA"}

FetchWithRetryTable == [s \in SymbolUniverse |-> FetchWithRetry(s)]

FetchOnceTable == [v \in {"app_simple", "backend_app"}, s \in SymbolUniverse |-> FetchOnce(v, s)]

FetchResults(v, symbol) ==
    IF v = "app_fastapi" THEN FetchWithRetryTable[symbol]
    ELSE IF v = "app" THEN FetchDirect
    ELSE FetchOnceTable[v, symbol]

Env(f, rnd) == [f |-> f, rnd |-> rnd]

UsesMock(v, f) == v = "app" /\ f.raw.kind # "ok"

Envs(v, symbol) ==
    UNION {{Env(f, rnd) : rnd \in IF UsesMock(v, f) THEN RandomDraws ELSE {0}} :
              f \in FetchResults(v, symbol)}

(***************************************************************************)
(* The TTL cache and get_stock_data.                                       *)
(***************************************************************************)
\* the comparison turned round
IsFreshReversed(v, cached_at, t) == t - cached_at > CACHE_DURATION(v)

\* an entry of age exactly CACHE_DURATION still taken for fresh
IsFreshInclusive(v, cached_at, t) == t - cached_at <= CACHE_DURATION(v)

IsFresh(v, cached_at, t) == t - cached_at < CACHE_DURATION(v)

is_cache_valid(v, c, key, t) == key \in DOMAIN c /\ IsFresh(v, c[key].cached_at, t)

CacheStore(c, key, data, t) ==
    [k \in DOMAIN c \cup {key} |->
        IF k = key THEN [data |-> data, cached_at |-> t] ELSE c[k]]

Result(ok, quote, msg, c, n) ==
    [ok |-> ok, quote |-> quote, msg |-> msg, cache |-> c, calls |-> n]

StoreAndReturn(c, key, stock_data, t, n) ==
    Result(TRUE, stock_data, "", CacheStore(c, key, stock_data, t), n)

FallbackOf(symbol, d, rnd, t) ==
    IF d.ok THEN d.quote ELSE get_mock_stock_data(symbol, rnd, t)

\* app.py without its except clause: the exception of the direct fetch leaves
\* get_stock_data
RefreshWithoutFallback(symbol, c, t, e) ==
    IF e.f.raw.kind = "ok"
    THEN StoreAndReturn(c, cache_key("app", symbol),
                        get_stock_data_from_yahoo_direct(symbol, e.f.raw, t).quote,
                        t, e.f.calls)
    ELSE Result(FALSE, NoQuote, e.f.raw.msg, c, e.f.calls)

\* app.py: real data first, the mock on any exception, then the store
RefreshWithFallback(symbol, c, t, e) ==
    StoreAndReturn(c, cache_key("app", symbol),
                   FallbackOf(symbol, get_stock_data_from_yahoo_direct(symbol, e.f.raw, t),
                              e.rnd, t),
                   t, e.f.calls)

\* a refresh that drops the entry of the key when the fetch fails
RefreshStrictDropping(v, symbol, c, t, e) ==
    IF e.f.status = "raised" \/ ~e.f.raw.has_close
    THEN Result(FALSE, NoQuoteOf(v),
                IF e.f.status = "raised" THEN e.f.msg ELSE CloseMissingMessage(v, symbol),
                [k \in DOMAIN c \ {cache_key(v, symbol)} |-> c[k]], e.f.calls)
    ELSE StoreAndReturn(c, cache_key(v, symbol),
                        NormalizeQuote(v, symbol, e.f.raw, t), t, e.f.calls)

\* the strict variants: an exception of the fetch or of the normalisation
\* leaves get_stock_data before the store
RefreshStrict(v, symbol, c, t, e) ==
    IF e.f.status = "raised"
    THEN Result(FALSE, NoQuoteOf(v), e.f.msg, c, e.f.calls)
    ELSE IF ~e.f.raw.has_close
    THEN Result(FALSE, NoQuoteOf(v), CloseMissingMessage(v, symbol), c, e.f.calls)
    ELSE StoreAndReturn(c, cache_key(v, symbol),
                        NormalizeQuote(v, symbol, e.f.raw, t), t, e.f.calls)

Refresh(v, symbol, c, t, e) ==
    IF v = "app" THEN RefreshWithFallback(symbol, c, t, e)
    ELSE RefreshStrict(v, symbol, c, t, e)

\* get_stock_data under the environment e
get_stock_data(v, symbol, c, t, e) ==
    IF is_cache_valid(v, c, cache_key(v, symbol), t)
    THEN Result(TRUE, c[cache_key(v, symbol)].data, "", c, 0)
    ELSE Refresh(v, symbol, c, t, e)

\* every way one call of get_stock_data can end
GetStockData(v, symbol, c, t) ==
    IF is_cache_valid(v, c, cache_key(v, symbol), t)
    THEN {get_stock_data(v, symbol, c, t, Env(Fetched("none", EmptyHist, "", 0), 0))}
    ELSE {get_stock_data(v, symbol, c, t, e) : e \in Envs(v, symbol)}

(***************************************************************************)
(* Request handlers.                                                       *)
(***************************************************************************)
Symbols == {"PETR4", "petr4", "B"}

NoResp == [op |-> "none"]

\* the request handlers the server runs side by side (a thread or a task per
\* request), each with the request it serves
Handlers == 1..MaxHandlers

IdleFlight ==
    [status |-> "idle", symbol |-> "", began_at |-> 0, ok |-> FALSE, quote |-> NoQuote]

NoFlights == [h \in Handlers |-> IdleFlight]

Init ==
    /\ variant \in Variants
    /\ cache = <<>>
    /\ now = 0
    /\ ticks = 0
    /\ resp = NoResp
    /\ calls = 0
    /\ retry = RetryIdle
    /\ flights = NoFlights

\* backend-api/backend-api/app.py upper-cases in the route, the others in
\* get_stock_data
SingleArg(v, symbol) == IF v = "backend_app" THEN upper(symbol) ELSE symbol

get_single_stock(symbol) ==
    \E r \in GetStockData(variant, SingleArg(variant, symbol), cache, now) :
        /\ cache' = r.cache
        /\ calls' = r.calls
        /\ resp' = [op |-> "single", symbol |-> symbol, at |-> now,
                    status |-> IF r.ok THEN 200 ELSE 500,
                    quote |-> r.quote, details |-> r.msg]
        /\ UNCHANGED <<variant, now, ticks, retry, flights>>

ReportsRemoved(v) == v \in {"app", "backend_app"}

clear_cache ==
    /\ cache' = <<>>
    /\ calls' = 0
    /\ resp' = [op |-> "clear", at |-> now, status |-> 200,
                reports |-> ReportsRemoved(variant),
                removed |-> IF ReportsRemoved(variant) THEN Cardinality(DOMAIN cache) ELSE 0]
    /\ UNCHANGED <<variant, now, ticks, retry, flights>>

\* the clock moves between requests
TickSteps(v) == {1, CACHE_DURATION(v) - 1}

Tick ==
    /\ ticks < MaxTicks
    /\ \E d \in TickSteps(variant) : now' = now + d
    /\ ticks' = ticks + 1
    /\ UNCHANGED <<variant, cache, resp, calls, retry, flights>>

Next ==
    \/ \E s \in Symbols : get_single_stock(s)
    \/ clear_cache
    \/ Tick

Spec == Init /\ [][Next]_vars

(***************************************************************************)
(* get_multiple_stocks.  During one batch the upstream is steady: it       *)
(* answers every attempt for a symbol the same way, up[symbol].            *)
(***************************************************************************)
SteadyOutcomes == {Hist(<<1000, 1050>>), EmptyHist, Raises("HTTP 429"), Raises("timeout")}

SteadyDirect == {DirectOk(1050, TRUE, 1000), DirectFails("status", "Yahoo API returned 429")}

SteadyDraws == {0, 999}

SteadyEnvs(v, symbol) ==
    IF v = "app_fastapi"
    THEN {Env(FetchWithRetrySteady(symbol, o), 0) : o \in SteadyOutcomes}
    ELSE IF v = "app"
    THEN UNION {{Env(Fetched("called", o, "", 1), rnd) :
                    rnd \in IF o.kind # "ok" THEN SteadyDraws ELSE {0}} : o \in SteadyDirect}
    ELSE {Env(FetchOnceOn(v, symbol, o), 0) : o \in SteadyOutcomes}

SteadyEnvTable == [v \in Variants, s \in SymbolUniverse |-> SteadyEnvs(v, s)]

NonBlank(s) == strip(s) # ""

ParseSymbols(symbols_param) ==
    LET kept == SelectSeq(split(symbols_param, ","), NonBlank)
    IN  [i \in 1..Len(kept) |-> upper(strip(kept[i]))]

SymbolsOf(list) == {list[i] : i \in 1..Len(list)}

ErrorEntry(v, symbol, msg) ==
    IF v = "backend_app" THEN "Failed to fetch " \o symbol \o ": " \o msg
    ELSE symbol \o ": " \o msg

BatchStart(c) == [results |-> <<>>, errors |-> <<>>, processed |-> <<>>, calls |-> 0, cache |-> c]

\* a loop body that skips a symbol it has already been through
BatchAddOnce(v, acc, symbol, r) ==
    IF \E i \in 1..Len(acc.processed) : acc.processed[i].symbol = symbol
    THEN acc
    ELSE [results |-> IF r.ok
                      THEN [k \in DOMAIN acc.results \cup {symbol} |->
                               IF k = symbol THEN r.quote ELSE acc.results[k]]
                      ELSE acc.results,
          errors |-> IF r.ok THEN acc.errors
                     ELSE Append(acc.errors, ErrorEntry(v, symbol, r.msg)),
          processed |-> Append(acc.processed,
                               [symbol |-> symbol, ok |-> r.ok, quote |-> r.quote,
                                calls |-> r.calls]),
          calls |-> acc.calls + r.calls,
          cache |-> r.cache]

\* one pass of the loop body, r being what get_stock_data gave for symbol;
\* processed keeps, pass by pass, what the call returned and the upstream
\* calls it made
BatchAdd(v, acc, symbol, r) ==
    [results |-> IF r.ok
                 THEN [k \in DOMAIN acc.results \cup {symbol} |->
                          IF k = symbol THEN r.quote ELSE acc.results[k]]
                 ELSE acc.results,
     errors |-> IF r.ok THEN acc.errors
                ELSE Append(acc.errors, ErrorEntry(v, symbol, r.msg)),
     processed |-> Append(acc.processed,
                          [symbol |-> symbol, ok |-> r.ok, quote |-> r.quote,
                           calls |-> r.calls]),
     calls |-> acc.calls + r.calls,
     cache |-> r.cache]

BatchPass(v, symbol, t, up, acc) ==
    BatchAdd(v, acc, symbol, get_stock_data(v, symbol, acc.cache, t, up[symbol]))

\* the for loop over the parsed symbols, from its pass i on (the singleton
\* set binds the state after pass i before the next pass starts)
RECURSIVE BatchLoop(_, _, _, _, _, _)
BatchLoop(v, list, i, t, up, acc) ==
    IF i > Len(list) THEN acc
    ELSE CHOOSE done \in {BatchLoop(v, list, i + 1, t, up, next) :
                             next \in {BatchPass(v, list[i], t, up, acc)}} : TRUE

RECURSIVE Repeat(_, _)
Repeat(symbol, n) == IF n = 1 THEN symbol ELSE symbol \o "," \o Repeat(symbol, n - 1)

Params ==
    {"", ",", " , ", "petr4, B", "B,B",
     Repeat("B", MAX_SYMBOLS), Repeat("B", MAX_SYMBOLS + 1)}

ParsedParams == [p \in Params |-> ParseSymbols(p)]

HasCeiling(v) == v = "app_fastapi"

RejectsNoSymbols(v) == v = "backend_app"

BadRequest(symbols_param, message) ==
    [op |-> "batch", param |-> symbols_param, at |-> now, status |-> 400,
     message |-> message, results |-> <<>>, errors |-> <<>>, errors_field |-> "absent",
     total_requested |-> 0, total_successful |-> 0, processed |-> <<>>]

MissingMessage(v) ==
    IF v = "app_fastapi" THEN "Missing symbols parameter - provide only portfolio stocks"
    ELSE IF v = "app" THEN "Missing symbols parameter. Use ?symbols=PETR4,VALE3"
    ELSE IF v = "app_simple" THEN "Missing symbols parameter"
    ELSE "Missing symbols parameter. Use ?symbols=PETR4,VALE3,ITUB4"

ErrorsField(v, errors) ==
    IF errors # <<>> THEN "list" ELSE IF v = "backend_app" THEN "absent" ELSE "null"

Reject(symbols_param, message) ==
    /\ resp' = BadRequest(symbols_param, message)
    /\ calls' = 0
    /\ UNCHANGED <<variant, cache, now, ticks, retry, flights>>

BatchEnvs(v, symbol_list) ==
    {f \in [SymbolsOf(symbol_list) ->
               UNION {SteadyEnvTable[v, x] : x \in SymbolsOf(symbol_list)}] :
        \A x \in SymbolsOf(symbol_list) : f[x] \in SteadyEnvTable[v, x]}

Accept(symbols_param, symbol_list, done) ==
    /\ cache' = done.cache
    /\ calls' = done.calls
    /\ resp' = [op |-> "batch", param |-> symbols_param, at |-> now,
                status |-> 200, message |-> "",
                results |-> done.results,
                errors |-> done.errors,
                errors_field |-> ErrorsField(variant, done.errors),
                total_requested |-> Len(symbol_list),
                total_successful |-> Cardinality(DOMAIN done.results),
                processed |-> done.processed]
    /\ UNCHANGED <<variant, now, ticks, retry, flights>>

Handle(symbols_param, symbol_list) ==
    IF symbols_param = ""
    THEN Reject(symbols_param, MissingMessage(variant))
    ELSE IF RejectsNoSymbols(variant) /\ symbol_list = <<>>
    THEN Reject(symbols_param, "No valid symbols provided")
    ELSE IF HasCeiling(variant) /\ Len(symbol_list) > MAX_SYMBOLS
    THEN Reject(symbols_param,
                "Too many symbols requested. Maximum 20 portfolio stocks allowed.")
    ELSE \E up \in BatchEnvs(variant, symbol_list) :
             Accept(symbols_param, symbol_list,
                    BatchLoop(variant, symbol_list, 1, now, up, BatchStart(cache)))

get_multiple_stocks(symbols_param) == Handle(symbols_param, ParsedParams[symbols_param])

NextBatch ==
    \/ \E p \in Params : get_multiple_stocks(p)
    \/ clear_cache
    \/ Tick

SpecBatch == Init /\ [][NextBatch]_vars

\* app.py alone, single and batch requests together
FallbackParams == {"", "petr4, B", "B,B"}

InitFallback == Init /\ variant = "app"

NextFallback ==
    \/ \E s \in Symbols : get_single_stock(s)
    \/ \E p \in FallbackParams : get_multiple_stocks(p)
    \/ clear_cache
    \/ Tick

SpecFallback == InitFallback /\ [][NextFallback]_vars

\* single requests that spell one ticker in several ways
Spellings == {"PETR4", "petr4", "PETR4.SA"}

NextSpellings ==
    \/ \E s \in Spellings : get_single_stock(s)
    \/ clear_cache
    \/ Tick

SpecSpellings == Init /\ [][NextSpellings]_vars

(***************************************************************************)
(* Batches that name a symbol more than once, the upstream answering each  *)
(* occurrence as it likes.                                                 *)
(***************************************************************************)
RepeatParams == {"", "B,B", "petr4,PETR4", "B,petr4,b"}

ParsedRepeatParams == [p \in RepeatParams |-> ParseSymbols(p)]

\* the loop of get_multiple_stocks from its pass i on, ups[i] being the
\* environment of the i-th call of get_stock_data
RECURSIVE BatchLoopEach(_, _, _, _, _, _)
BatchLoopEach(v, list, i, t, ups, acc) ==
    IF i > Len(list) THEN acc
    ELSE BatchLoopEach(v, list, i + 1, t, ups,
                       BatchAdd(v, acc, list[i],
                                get_stock_data(v, list[i], acc.cache, t, ups[i])))

EachEnvs(v, symbol_list) ==
    {ups \in [1..Len(symbol_list) ->
                 UNION {SteadyEnvTable[v, x] : x \in SymbolsOf(symbol_list)}] :
        \A i \in 1..Len(symbol_list) : ups[i] \in SteadyEnvTable[v, symbol_list[i]]}

HandleEach(symbols_param, symbol_list) ==
    IF symbols_param = ""
    THEN Reject(symbols_param, MissingMessage(variant))
    ELSE IF RejectsNoSymbols(variant) /\ symbol_list = <<>>
    THEN Reject(symbols_param, "No valid symbols provided")
    ELSE IF HasCeiling(variant) /\ Len(symbol_list) > MAX_SYMBOLS
    THEN Reject(symbols_param,
                "Too many symbols requested. Maximum 20 portfolio stocks allowed.")
    ELSE \E ups \in EachEnvs(variant, symbol_list) :
             Accept(symbols_param, symbol_list,
                    BatchLoopEach(variant, symbol_list, 1, now, ups, BatchStart(cache)))

NextRepeats ==
    \/ \E p \in RepeatParams : HandleEach(p, ParsedRepeatParams[p])
    \/ clear_cache

SpecRepeats == Init /\ [][NextRepeats]_vars

(***************************************************************************)
(* The retry controller on its own, attempt by attempt.                    *)
(***************************************************************************)
RetrySymbols == {"PETR4", "vale3", "X429", "B"}

InitRetry ==
    /\ variant = "app_fastapi"
    /\ cache = <<>>
    /\ now = 0
    /\ ticks = 0
    /\ resp = NoResp
    /\ calls = 0
    /\ retry \in {RetryStart(s, m) : s \in RetrySymbols, m \in 1..MaxRetries}
    /\ flights = NoFlights

RetryAttempt(o) ==
    /\ retry.status = "running"
    /\ retry' = RetryIter(retry, o)
    /\ UNCHANGED <<variant, cache, now, ticks, resp, calls, flights>>

NextRetry == \E o \in YfOutcomes : RetryAttempt(o)

SpecRetry == InitRetry /\ [][NextRetry]_vars

(***************************************************************************)
(* The retry controller with the arguments of its time.sleep calls: resp   *)
(* holds the delays slept so far, in milliseconds.                         *)
(***************************************************************************)
JitterDraws == {0, 500, 999}

Slept(delays) == [op |-> "backoff", delays |-> delays]

InitBackoff ==
    /\ variant = "app_fastapi"
    /\ cache = <<>>
    /\ now = 0
    /\ ticks = 0
    /\ resp = Slept(<<>>)
    /\ calls = 0
    /\ retry \in {RetryStart(s, m) : s \in RetrySymbols, m \in 1..MaxRetries}
    /\ flights = NoFlights

BackoffAttempt(o, jitter) ==
    /\ retry.status = "running"
    /\ resp' = IF SleepsBefore(retry.attempt)
               THEN Slept(Append(resp.delays, delay(retry.attempt, jitter)))
               ELSE resp
    /\ retry' = RetryIter(retry, o)
    /\ UNCHANGED <<variant, cache, now, ticks, calls, flights>>

NextBackoff == \E o \in SteadyOutcomes, jitter \in JitterDraws : BackoffAttempt(o, jitter)

SpecBackoff == InitBackoff /\ [][NextBackoff]_vars

(***************************************************************************)
(* Requests served side by side.  A handler is cut where get_stock_data    *)
(* goes upstream: Begin is the request up to the cache lookup, Finish the  *)
(* return of the fetch, the normalisation and the store.  The Flask        *)
(* variants serve each request on a thread of its own; app_fastapi.py      *)
(* declares its handlers async def and never awaits, so the event loop of  *)
(* uvicorn runs one handler to its end (sleeps of the retry loop included) *)
(* before it starts the next.                                              *)
(***************************************************************************)
ConcSymbols == {"PETR4", "B"}

RunsOnEventLoop(v) == v = "app_fastapi"

EventLoopFree ==
    RunsOnEventLoop(variant) => \A h \in Handlers : flights[h].status # "fetching"

Flight(status, symbol, began_at, ok, quote) ==
    [status |-> status, symbol |-> symbol, began_at |-> began_at, ok |-> ok,
     quote |-> quote]

Begin(h, symbol) ==
    /\ flights[h].status = "idle"
    /\ EventLoopFree
    /\ IF is_cache_valid(variant, cache, cache_key(variant, SingleArg(variant, symbol)), now)
       THEN /\ flights' = [flights EXCEPT ![h] =
                   Flight("done", symbol, now, TRUE,
                          cache[cache_key(variant, SingleArg(variant, symbol))].data)]
            /\ retry' = retry
       ELSE /\ flights' = [flights EXCEPT ![h] =
                   Flight("fetching", symbol, now, FALSE, NoQuote)]
            /\ retry' = IF RunsOnEventLoop(variant)
                        THEN RetryStart(SingleArg(variant, symbol), DEFAULT_MAX_RETRIES)
                        ELSE retry
    /\ UNCHANGED <<variant, cache, now, ticks, resp, calls>>

\* what the fetch of handler h met upstream: the retry loop's end in
\* app_fastapi.py, one answer of the provider in the other variants (the
\* mock, where used, with its lowest draw)
FlightEnvs(h) ==
    IF RunsOnEventLoop(variant)
    THEN IF retry.status \in {"returned", "raised"}
         THEN {Env(Fetched(retry.status, retry.hist, retry.msg, retry.calls), 0)}
         ELSE {}
    ELSE {e \in SteadyEnvTable[variant, SingleArg(variant, flights[h].symbol)] : e.rnd = 0}

\* a store that is dropped when a clear came after the request began
FinishUnlessCleared(h, r) ==
    /\ cache' = IF resp.op = "clear" /\ resp.at >= flights[h].began_at
                THEN cache ELSE r.cache
    /\ flights' = [flights EXCEPT ![h] =
           Flight("done", @.symbol, @.began_at, r.ok, r.quote)]
    /\ retry' = IF RunsOnEventLoop(variant) THEN RetryIdle ELSE retry
    /\ UNCHANGED <<variant, now, ticks, resp, calls>>

FinishWith(h, r) ==
    /\ cache' = r.cache
    /\ flights' = [flights EXCEPT ![h] =
           Flight("done", @.symbol, @.began_at, r.ok, r.quote)]
    /\ retry' = IF RunsOnEventLoop(variant) THEN RetryIdle ELSE retry
    /\ UNCHANGED <<variant, now, ticks, resp, calls>>

Finish(h) ==
    /\ flights[h].status = "fetching"
    /\ \E e \in FlightEnvs(h) :
           FinishWith(h, Refresh(variant, SingleArg(variant, flights[h].symbol),
                                 cache, now, e))

\* the clear handler, which waits for the event loop like any other
ClearRequest == EventLoopFree /\ clear_cache

\* the clock while requests are under way: a second at a time
ShortTick == Tick /\ now' = now + 1

NextConc ==
    \/ \E h \in Handlers, s \in ConcSymbols : Begin(h, s)
    \/ \E h \in Handlers : Finish(h)
    \/ \E o \in SteadyOutcomes : RetryAttempt(o)
    \/ ClearRequest
    \/ ShortTick

SpecConc == Init /\ [][NextConc]_vars

\* the threaded variants whose clear reports what it removed
InitClearRace == Init /\ variant \in {"app", "backend_app"}

NextClearRace ==
    \/ \E h \in Handlers, s \in ConcSymbols : Begin(h, s)
    \/ \E h \in Handlers : Finish(h)
    \/ ClearRequest
    \/ ShortTick

SpecClearRace == InitClearRace /\ [][NextClearRace]_vars

(***************************************************************************)
(* Claims on the TTL cache (specification Spec).                           *)
(***************************************************************************)
KeyOf(s) == cache_key(variant, SingleArg(variant, s))

HasFreshEntry(s) ==
    /\ KeyOf(s) \in DOMAIN cache
    /\ now - cache[KeyOf(s)].cached_at < CACHE_DURATION(variant)

\* a step of get_single_stock: the only handler that answers with op "single",
\* and the clock stands still during a request
SingleStep == resp'.op = "single" /\ now' = now /\ ticks' = ticks

\* C1: a get_stock_data call made while the key's entry is younger than the
\* TTL returns exactly the stored quote, makes no upstream call and leaves
\* the cache as it was.
C1_FreshHitReturnsStored ==
    [][(SingleStep /\ HasFreshEntry(resp'.symbol)) =>
           /\ resp'.status = 200
           /\ resp'.quote = cache[KeyOf(resp'.symbol)].data
           /\ calls' = 0
           /\ cache' = cache]_vars

C1_Witness ==
    /\ resp.op = "single"
    /\ resp.status = 200
    /\ calls = 0
    /\ resp.at = now
    /\ resp.quote.timestamp < now
    /\ now - resp.quote.timestamp = CACHE_DURATION(variant) - 1

\* C2: a stale quote is never served: a returned quote is either the entry
\* of the key while younger than the TTL, or was built by a refresh of this
\* very call; an entry of age exactly TTL, like a miss, forces the refresh.
C2_NeverServesStale ==
    [][SingleStep =>
           /\ resp'.status = 200 =>
                \/ HasFreshEntry(resp'.symbol)
                      /\ resp'.quote = cache[KeyOf(resp'.symbol)].data
                \/ calls' >= 1 /\ resp'.quote.timestamp = now
           /\ ~HasFreshEntry(resp'.symbol) => calls' >= 1]_vars

\* the entry of the requested key is exactly CACHE_DURATION old and was not
\* served: the call went upstream (and failed, the entry being still there)
C2_Witness ==
    /\ resp.op = "single"
    /\ resp.at = now
    /\ KeyOf(resp.symbol) \in DOMAIN cache
    /\ now - cache[KeyOf(resp.symbol)].cached_at = CACHE_DURATION(variant)
    /\ calls >= 1
    /\ resp.status = 500

(***************************************************************************)
(* Claims on the retry controller (specification SpecRetry).               *)
(***************************************************************************)
RateLimitSignals == {"HTTP 429", "Too Many Requests"}

RateLimited(o) == o.kind = "exc" /\ o.msg \in RateLimitSignals

Terminated == retry.status \in {"returned", "raised"}

\* C3: one call of get_stock_data_with_retry makes at most max_retries
\* upstream calls, and has ended with a result or an error once it made
\* that many.
C3_RetryBounded ==
    /\ retry.calls <= retry.max_retries
    /\ retry.calls = Len(retry.answers)
    /\ retry.calls = retry.max_retries => Terminated
    /\ retry.status = "running" => retry.attempt = retry.calls

C3_Witness ==
    /\ retry.status = "raised"
    /\ retry.max_retries = DEFAULT_MAX_RETRIES
    /\ retry.calls = DEFAULT_MAX_RETRIES

\* C4: a rate-limited failure is retried while attempts remain; when every
\* attempt is rate-limited exactly max_retries calls are made and the fetch
\* fails with the rate-limit-exceeded error; rate-limited attempts followed
\* by a non-empty answer within the cap give that answer.
C4_RateLimitRetried ==
    LET n == Len(retry.answers)
    IN  /\ (\A i \in 1..n : RateLimited(retry.answers[i])) =>
              IF n < retry.max_retries
              THEN retry.status = "running" /\ retry.attempt = n
              ELSE /\ retry.status = "raised"
                   /\ retry.calls = retry.max_retries
                   /\ startswith(retry.msg, "Rate limit exceeded for " \o retry.symbol)
        /\ (/\ n >= 2
            /\ \A i \in 1..(n - 1) : RateLimited(retry.answers[i])
            /\ retry.answers[n].kind = "hist") =>
              retry.status = "returned" /\ retry.hist = retry.answers[n]

C4_Witness ==
    /\ retry.status = "raised"
    /\ retry.max_retries = DEFAULT_MAX_RETRIES
    /\ Len(retry.answers) = DEFAULT_MAX_RETRIES
    /\ \A i \in 1..Len(retry.answers) : RateLimited(retry.answers[i])

\* C5: an upstream failure that is no rate-limit signal, raised on attempt k,
\* ends the call at once with that error: k+1 upstream calls were made and
\* nothing (no sleep, no attempt) follows it.
C5_OtherErrorPropagates ==
    \A i \in 1..Len(retry.answers) :
        (retry.answers[i].kind = "exc" /\ ~RateLimited(retry.answers[i])) =>
            /\ i = Len(retry.answers)
            /\ retry.status = "raised"
            /\ retry.msg = retry.answers[i].msg
            /\ retry.calls = i
            /\ retry.attempt = i - 1
            /\ retry.events[Len(retry.events)] = "call"

C5_Witness ==
    /\ retry.max_retries = DEFAULT_MAX_RETRIES
    /\ Len(retry.answers) = 2
    /\ RateLimited(retry.answers[1])
    /\ retry.answers[2] = Raises("timeout")
    /\ retry.status = "raised"

\* C6: an empty result on the final attempt surfaces as the NoData failure,
\* never as the rate-limit failure, whatever the symbol.
C6_EmptyFinalIsNoData ==
    (/\ Len(retry.answers) = retry.max_retries
     /\ retry.answers[retry.max_retries].kind = "empty") =>
        /\ retry.status = "raised"
        /\ startswith(retry.msg, "No data found")
        /\ ~startswith(retry.msg, "Rate limit exceeded")

(***************************************************************************)
(* Claims on get_multiple_stocks (specification SpecBatch).                *)
(***************************************************************************)
Requested == ParsedParams[resp.param]

\* a step of get_multiple_stocks
BatchRequest == resp'.op = "batch" /\ now' = now /\ ticks' = ticks

\* C7: a failing symbol never aborts the batch: every parsed symbol is
\* processed, in input order; for distinct [A, B] with A failing and B
\* succeeding the answer counts 2 requested, 1 successful, holds B's quote
\* alone and one error entry, which starts with "A: ".
C7_BatchIsolation ==
    (resp.op = "batch" /\ resp.status = 200) =>
        /\ [i \in 1..Len(resp.processed) |-> resp.processed[i].symbol] = Requested
        /\ (/\ Len(Requested) = 2
            /\ Requested[1] # Requested[2]
            /\ ~resp.processed[1].ok
            /\ resp.processed[2].ok) =>
               /\ resp.total_requested = 2
               /\ resp.total_successful = 1
               /\ DOMAIN resp.results = {Requested[2]}
               /\ Len(resp.errors) = 1
               /\ startswith(resp.errors[1], Requested[1] \o ": ")

\* C8: a request of more than MAX_SYMBOLS parsed symbols is rejected before
\* any per-symbol work (no upstream call, no get_stock_data call, the cache
\* as it was); one of exactly MAX_SYMBOLS symbols is accepted and processed.
C8_InputCeiling ==
    [][BatchRequest =>
           /\ Len(ParsedParams[resp'.param]) > MAX_SYMBOLS =>
                /\ resp'.status = 400
                /\ calls' = 0
                /\ resp'.processed = <<>>
                /\ cache' = cache
           /\ Len(ParsedParams[resp'.param]) = MAX_SYMBOLS =>
                /\ resp'.status = 200
                /\ Len(resp'.processed) = MAX_SYMBOLS]_vars

\* C9: a request whose symbol list is empty after parsing is rejected with
\* status 400 before any upstream work, and never answered with a
\* successful batch of total_requested = 0.
C9_EmptyListRejected ==
    /\ (resp.op = "batch" /\ Requested = <<>>) =>
           resp.status = 400 /\ calls = 0 /\ resp.processed = <<>>
    /\ ~(resp.op = "batch" /\ resp.status = 200 /\ resp.total_requested = 0)

(***************************************************************************)
(* Claims on the fallback-capable variant (specification SpecFallback).    *)
(***************************************************************************)
\* C10: in app.py get_stock_data always returns a quote, never an error,
\* whatever the upstream does; hence a batch never reports an error.
C10_FallbackNeverFails ==
    /\ resp.op = "single" =>
           /\ resp.status = 200
           /\ resp.details = ""
           /\ resp.quote # NoQuote
           /\ resp.quote.symbol = upper(resp.symbol)
           /\ resp.quote.source \in {"Yahoo Finance Direct", "Realistic Mock Data"}
           /\ resp.quote.isMocked = (resp.quote.source = "Realistic Mock Data")
    /\ (resp.op = "batch" /\ resp.status = 200) =>
           /\ resp.errors = <<>>
           /\ resp.errors_field = "null"
           /\ resp.total_successful = Cardinality(SymbolsOf(Requested))
           /\ \A i \in 1..Len(resp.processed) : resp.processed[i].ok

C10_Witness ==
    /\ variant = "app"
    /\ resp.op = "single"
    /\ resp.status = 200
    /\ calls = 1
    /\ resp.quote.isMocked
    /\ resp.quote.timestamp = now

(***************************************************************************)
(* Claims on the provenance of quotes and on clear (specification Spec).   *)
(***************************************************************************)
MockSource == "Realistic Mock Data"

StrictVariants == {"app_fastapi", "app_simple", "backend_app"}

\* the quotes a state shows: those held in the cache and the one (or the
\* ones) of the last answer
ShownQuotes ==
    {cache[k].data : k \in DOMAIN cache}
        \cup (IF resp.op = "single" /\ resp.status = 200 THEN {resp.quote} ELSE {})
        \cup (IF resp.op = "batch" /\ resp.status = 200
              THEN {resp.results[k] : k \in DOMAIN resp.results} ELSE {})

\* C11: a returned or cached quote has isMocked = true exactly when the
\* fallback generator produced it (its source tag says so), and in the strict
\* variants no returned or cached quote has isMocked = true.
C11_MockedIffFallback ==
    \A q \in ShownQuotes :
        /\ q.isMocked = (q.source = MockSource)
        /\ variant \in StrictVariants => ~q.isMocked
        /\ q.source = MockSource => variant = "app"

\* a mock quote, stored after a failed fetch, served again from the cache
C11_Witness ==
    /\ variant = "app"
    /\ resp.op = "single"
    /\ resp.status = 200
    /\ calls = 0
    /\ resp.quote.isMocked
    /\ resp.quote.source = MockSource
    /\ resp.quote.timestamp < now
    /\ \E k \in DOMAIN cache : cache[k].data = resp.quote

\* a step of clear_cache
ClearStep == resp'.op = "clear" /\ now' = now /\ ticks' = ticks

\* C13: clear removes every entry and returns the number of entries held just
\* before the call, 0 on an empty cache, which it leaves empty.
C13_ClearReportsCount ==
    [][ClearStep =>
           /\ cache' = <<>>
           /\ resp'.reports
           /\ resp'.removed = Cardinality(DOMAIN cache)]_vars

(***************************************************************************)
(* Claims on empty results and on the sleeps of the retry controller       *)
(* (specification SpecRetry).                                              *)
(***************************************************************************)
\* C19: an empty result on a non-final attempt is retried; when every answer
\* is empty exactly max_retries calls are made and NoData is raised; empty
\* answers followed by a non-empty one within the cap give that answer.
C19_EmptyRetried ==
    LET n == Len(retry.answers)
    IN  /\ (\A i \in 1..n : retry.answers[i].kind = "empty") =>
              IF n < retry.max_retries
              THEN retry.status = "running" /\ retry.attempt = n
              ELSE /\ retry.status = "raised"
                   /\ retry.calls = retry.max_retries
                   /\ retry.msg = NoDataMessage(retry.symbol, retry.max_retries)
        /\ (/\ n >= 2
            /\ \A i \in 1..(n - 1) : retry.answers[i].kind = "empty"
            /\ retry.answers[n].kind = "hist") =>
              retry.status = "returned" /\ retry.hist = retry.answers[n]

Sleeps == Cardinality({i \in 1..Len(retry.events) : retry.events[i] = "sleep"})

\* C20: attempt 0 is not preceded by a sleep, every later attempt is preceded
\* by exactly one: the events are call, (sleep, call)*; the sleeps number the
\* calls minus one, and no sleep follows the last call.
C20_SleepsBetweenAttempts ==
    retry.calls >= 1 =>
        /\ Len(retry.events) = 2 * retry.calls - 1
        /\ \A i \in 1..Len(retry.events) :
               retry.events[i] = IF i % 2 = 1 THEN "call" ELSE "sleep"
        /\ Sleeps = retry.calls - 1
        /\ retry.events[Len(retry.events)] = "call"

C20_Witness ==
    /\ retry.status = "raised"
    /\ retry.max_retries = DEFAULT_MAX_RETRIES
    /\ retry.calls = DEFAULT_MAX_RETRIES
    /\ Sleeps = DEFAULT_MAX_RETRIES - 1

(***************************************************************************)
(* Claim on the cache key (specification SpecSpellings).                   *)
(***************************************************************************)
MarketSuffix == ".SA"

\* the ticker a spelling stands for: letter case and the market suffix apart
Ticker(s) ==
    IF endswith(upper(s), MarketSuffix)
    THEN SubSeq(upper(s), 1, Len(s) - Len(MarketSuffix))
    ELSE upper(s)

\* C12: the cache holds at most one entry per ticker: spellings of one ticker
\* (letter case, with or without the market suffix) share one key, so they
\* give neither two entries nor two upstream fetches within one TTL window.
C12_OneEntryPerTicker ==
    /\ \A k1, k2 \in DOMAIN cache :
           Ticker(cache[k1].data.symbol) = Ticker(cache[k2].data.symbol) => k1 = k2
    /\ (resp.op = "single" /\ resp.status = 200 /\ calls >= 1) =>
           \A k \in DOMAIN cache :
               (/\ Ticker(cache[k].data.symbol) = Ticker(resp.symbol)
                /\ resp.at - cache[k].cached_at < CACHE_DURATION(variant)) =>
                   k = KeyOf(resp.symbol)

(***************************************************************************)
(* Claims on requests served side by side (specifications SpecClearRace    *)
(* and SpecConc).                                                          *)
(***************************************************************************)
Fetching(h) == flights[h].status = "fetching"

\* a step of the clear handler: no request begins or ends, no time passes
ClearRequestStep == resp'.op = "clear" /\ flights' = flights /\ now' = now

\* the step in which the fetch of handler h comes back
FinishStep(h) == Fetching(h) /\ flights'[h].status = "done"

\* C14: clear neither cancels nor waits for a refresh under way: it empties
\* the cache and reports the count it saw, and a refresh that began before it
\* still stores its quote when its fetch comes back, over whatever the cache
\* then holds (last write wins).
C14_ClearVsRefresh ==
    [][/\ ClearRequestStep =>
            /\ cache' = <<>>
            /\ resp'.reports
            /\ resp'.removed = Cardinality(DOMAIN cache)
       /\ \A h \in Handlers :
            FinishStep(h) =>
                IF flights'[h].ok
                THEN /\ DOMAIN cache' = DOMAIN cache \cup {KeyOf(flights[h].symbol)}
                     /\ cache'[KeyOf(flights[h].symbol)] =
                            [data |-> flights'[h].quote, cached_at |-> now]
                     /\ \A k \in DOMAIN cache \ {KeyOf(flights[h].symbol)} :
                            cache'[k] = cache[k]
                     /\ flights'[h].quote.timestamp = now
                ELSE cache' = cache]_vars

\* the cache holds an entry written after the last clear, which had removed
\* something, though every request began before that clear
C14_Witness ==
    /\ resp.op = "clear"
    /\ resp.removed >= 1
    /\ \A h \in Handlers : flights[h].status # "idle" => flights[h].began_at < resp.at
    /\ \E h \in Handlers :
           /\ flights[h].status = "done"
           /\ flights[h].ok
           /\ KeyOf(flights[h].symbol) \in DOMAIN cache
           /\ cache[KeyOf(flights[h].symbol)].data = flights[h].quote
           /\ cache[KeyOf(flights[h].symbol)].cached_at >= resp.at

\* C15: the lookup and the store of get_stock_data are atomic per key: at
\* most one upstream fetch for a key is under way at any time.
C15_OneFetchPerKey ==
    \A h1, h2 \in Handlers :
        (/\ Fetching(h1)
         /\ Fetching(h2)
         /\ KeyOf(flights[h1].symbol) = KeyOf(flights[h2].symbol)) => h1 = h2

\* the retry loop of handler h stands between two attempts, in its backoff
Sleeping(h) ==
    /\ RunsOnEventLoop(variant)
    /\ Fetching(h)
    /\ retry.status = "running"
    /\ SleepsBefore(retry.attempt)

\* C16: a retry sleep blocks only the request that retries: while the request
\* of one handler sleeps, a request for another symbol can begin.
C16_SleepBlocksOnlyItsRequest ==
    \A h, h2 \in Handlers :
        (Sleeping(h) /\ flights[h2].status = "idle") =>
            \E s \in ConcSymbols :
                /\ KeyOf(s) # KeyOf(flights[h].symbol)
                /\ ENABLED Begin(h2, s)

(***************************************************************************)
(* The quote builders as functions of their inputs.                        *)
(*                                                                         *)
(* Python floats in get_mock_stock_data: an amount is the exact fraction   *)
(* num / den of a cent, and the draw of random.random() is the fraction    *)
(* n / d, which stands for the doubles next to it.  Where the amount is    *)
(* not a half cent, round() of the double is round() of the amount.  Where *)
(* it is a half cent, the double either is the amount (possible only for   *)
(* an amount k / 2^m, which round() then takes to the even cent) or lies   *)
(* next to it, above or below, and round() follows the double.  With a     *)
(* base price that is itself a double, current_price - base_price is       *)
(* exact, so change lies on the same side as current_price.                *)
(***************************************************************************)
RECURSIVE Gcd(_, _)
Gcd(a, b) == IF b = 0 THEN a ELSE Gcd(b, a % b)

RECURSIVE IsPowerOfTwo(_)
IsPowerOfTwo(n) == n = 1 \/ (n > 1 /\ n % 2 = 0 /\ IsPowerOfTwo(n \div 2))

\* num / den written in lowest terms has a power of two below the line
IsDyadic(num, den) ==
    IsPowerOfTwo(den \div Gcd(IF num < 0 THEN -num ELSE num, den))

Landings == {"exact", "above", "below"}

\* round(x, 2) of the double standing for num / den cents
RoundFloat(num, den, landing) ==
    IF 2 * (num % den) # den \/ landing = "exact" THEN RoundDiv(num, den)
    ELSE IF landing = "above" THEN (num \div den) + 1
    ELSE num \div den

\* the draw n / d of random.random()
Draw(n, d, landing) == [n |-> n, d |-> d, landing |-> landing]

\* variation = (n / d - 0.5) * 0.04 = (2 n - d) / (50 d)
get_mock_stock_data_on(symbol, draw, t) ==
    LET base_price == BasePrice(symbol)
        den == 50 * draw.d
        num == 2 * draw.n - draw.d
    IN  [symbol |-> upper(symbol),
         price |-> RoundFloat(base_price * (den + num), den, draw.landing),
         change |-> RoundFloat(base_price * num, den, draw.landing),
         changePercent |-> RoundDiv(200 * num, draw.d),
         currency |-> "BRL",
         timestamp |-> t,
         source |-> "Realistic Mock Data",
         isMocked |-> TRUE]

\* the double of current_price can be the amount itself only where the
\* amount, in currency units, is k / 2^m
LandingPossible(symbol, draw) ==
    draw.landing = "exact" =>
        IsDyadic(BasePrice(symbol) * (50 * draw.d + 2 * draw.n - draw.d), 5000 * draw.d)

Prices == {0, 1, 3, 1000, 1050}

QuoteCloseSeries == {<<p>> : p \in Prices} \cup {<<p, q>> : p, q \in Prices}

QuoteDirectAnswers ==
    {DirectOk(p, TRUE, q) : p, q \in Prices} \cup {DirectOk(p, FALSE, 0) : p \in Prices}

\* symbols of the table with a price that is a double (32.25), with one
\* that is not (38.45), and symbols outside the table (25.00)
MockSymbols == {"ITUB4", "itub4", "PETR4", "XPTO"}

DrawGrids == {1000, 129}

MockDraws == {Draw(n, d, l) : n \in 0..999, d \in DrawGrids, l \in Landings}

NoDraw == Draw(0, 1, "exact")

QuoteInput(kind, symbol, raw, o, draw) ==
    [op |-> "input", kind |-> kind, symbol |-> symbol, raw |-> raw, o |-> o,
     draw |-> draw, quote |-> NoQuote]

QuoteInputs(v) ==
    IF v = "app"
    THEN {QuoteInput("direct", "PETR4", EmptyHist, o, NoDraw) : o \in QuoteDirectAnswers}
         \cup {QuoteInput("mock", s, EmptyHist, DirectFails("neterr", "timeout"), dr) :
                  s \in MockSymbols,
                  dr \in {x \in MockDraws : x.n < x.d}}
    ELSE {QuoteInput("yf", "PETR4", HistIn(c, cur), DirectFails("neterr", "timeout"), NoDraw) :
             c \in QuoteCloseSeries, cur \in {"", "USD"}}

InitQuotes ==
    /\ variant \in Variants
    /\ cache = <<>>
    /\ now = 0
    /\ ticks = 0
    /\ resp \in {i \in QuoteInputs(variant) :
                    i.kind = "mock" => LandingPossible(i.symbol, i.draw)}
    /\ calls = 0
    /\ retry = RetryIdle
    /\ flights = NoFlights

Built(quote) == [resp EXCEPT !.op = "quote", !.quote = quote]

BuildQuote ==
    /\ resp.op = "input"
    /\ resp.kind = "yf"
    /\ resp' = Built(NormalizeQuote(variant, resp.symbol, resp.raw, now))
    /\ UNCHANGED <<variant, cache, now, ticks, calls, retry, flights>>

BuildDirect ==
    /\ resp.op = "input"
    /\ resp.kind = "direct"
    /\ resp' = Built(get_stock_data_from_yahoo_direct(resp.symbol, resp.o, now).quote)
    /\ UNCHANGED <<variant, cache, now, ticks, calls, retry, flights>>

BuildMock ==
    /\ resp.op = "input"
    /\ resp.kind = "mock"
    /\ resp' = Built(get_mock_stock_data_on(resp.symbol, resp.draw, now))
    /\ UNCHANGED <<variant, cache, now, ticks, calls, retry, flights>>

NextQuotes == BuildQuote \/ BuildDirect \/ BuildMock

SpecQuotes == InitQuotes /\ [][NextQuotes]_vars

BuiltQuote(kind) == resp.op = "quote" /\ resp.kind = kind

\* the previous close the builder works with: for history(), the close before
\* the last one, or the last one where there is no other
PreviousCloseOfHistory ==
    LET close == resp.raw.close
    IN  IF Len(close) > 1 THEN close[Len(close) - 1] ELSE close[Len(close)]

PreviousCloseOfChart == IF resp.o.has_prev THEN resp.o.prev ELSE resp.o.price

\* C17: every quote has changePercent = 0 where its previous close is 0, and
\* change = 0 and changePercent = 0 where there is one price observation only
\* (the previous close then being the price).
C17_ChangePercentSafe ==
    /\ BuiltQuote("yf") =>
          /\ PreviousCloseOfHistory = 0 => resp.quote.changePercent = 0
          /\ Len(resp.raw.close) = 1 =>
                /\ PreviousCloseOfHistory = resp.quote.price
                /\ resp.quote.change = 0
                /\ resp.quote.changePercent = 0
    /\ BuiltQuote("direct") =>
          /\ PreviousCloseOfChart = 0 => resp.quote.changePercent = 0
          /\ ~resp.o.has_prev =>
                /\ PreviousCloseOfChart = resp.quote.price
                /\ resp.quote.change = 0
                /\ resp.quote.changePercent = 0

C17_Witness ==
    /\ BuiltQuote("yf")
    /\ Len(resp.raw.close) = 2
    /\ PreviousCloseOfHistory = 0
    /\ resp.quote.price > 0
    /\ resp.quote.change = resp.quote.price
    /\ resp.quote.changePercent = 0

\* C18: for every symbol and every draw, the mock quote is marked, has a
\* positive price, a change equal to price minus base price, and a change
\* percent of at most 2 in absolute value.
C18_MockQuoteValid ==
    BuiltQuote("mock") =>
        /\ resp.quote.isMocked
        /\ resp.quote.price > 0
        /\ resp.quote.change = resp.quote.price - BasePrice(resp.symbol)
        /\ resp.quote.changePercent >= -200
        /\ resp.quote.changePercent <= 200

(***************************************************************************)
(* The backoff of the retry controller (specification SpecBackoff).        *)
(***************************************************************************)
\* C21: the sleep before attempt k is 2^k seconds plus a jitter between 0 and
\* 1 second, and the sleeps of one fetch grow strictly from one retry to the
\* next.  The k-th delay slept is the one before attempt k.
C21_BackoffGrowth ==
    LET delays == resp.delays
    IN  /\ retry.calls >= 1 => Len(delays) = retry.calls - 1
        /\ \A k \in 1..Len(delays) :
               /\ delays[k] >= 1000 * (2 ^ k)
               /\ delays[k] <= 1000 * (2 ^ k) + 1000
        /\ \A k \in 1..(Len(delays) - 1) : delays[k] < delays[k + 1]

C21_Witness ==
    /\ retry.calls = DEFAULT_MAX_RETRIES
    /\ Len(resp.delays) = DEFAULT_MAX_RETRIES - 1
    /\ resp.delays[1] = 2999
    /\ resp.delays[2] = 4000

(***************************************************************************)
(* Batches with repeated symbols (specification SpecRepeats).              *)
(***************************************************************************)
RequestedRepeat == ParsedRepeatParams[resp.param]

AcceptedBatch == resp.op = "batch" /\ resp.status = 200

\* the passes of the batch that were for symbol s and returned a quote
SuccessfulPasses(s) ==
    {i \in 1..Len(resp.processed) : resp.processed[i].symbol = s /\ resp.processed[i].ok}

FailedPasses == {i \in 1..Len(resp.processed) : ~resp.processed[i].ok}

LastOf(S) == CHOOSE i \in S : \A j \in S : j <= i

\* C22: every occurrence of a symbol in the list is passed to get_stock_data,
\* in input order; total_requested counts every occurrence; results holds for
\* a symbol the quote of its last successful occurrence; in the strict
\* variants every failing occurrence has its own errors entry and made its
\* own upstream calls.
C22_NoDeduplication ==
    AcceptedBatch =>
        /\ Len(resp.processed) = Len(RequestedRepeat)
        /\ \A i \in 1..Len(RequestedRepeat) : resp.processed[i].symbol = RequestedRepeat[i]
        /\ resp.total_requested = Len(RequestedRepeat)
        /\ DOMAIN resp.results = {s \in SymbolsOf(RequestedRepeat) : SuccessfulPasses(s) # {}}
        /\ \A s \in DOMAIN resp.results :
               resp.results[s] = resp.processed[LastOf(SuccessfulPasses(s))].quote
        /\ variant \in StrictVariants =>
               /\ Len(resp.errors) = Cardinality(FailedPasses)
               /\ \A i \in FailedPasses : resp.processed[i].calls >= 1

C22_Witness ==
    /\ AcceptedBatch
    /\ variant \in StrictVariants
    /\ Len(RequestedRepeat) = 2
    /\ RequestedRepeat[1] = RequestedRepeat[2]
    /\ ~resp.processed[1].ok
    /\ resp.processed[2].ok
    /\ resp.processed[2].calls >= 1
    /\ resp.total_requested = 2
    /\ Len(resp.errors) = 1
    /\ resp.results[RequestedRepeat[2]] = resp.processed[2].quote

(***************************************************************************)
(* The counts of a batch answer (specification SpecBatch).                 *)
(***************************************************************************)
\* C25: in every accepted batch total_requested is the length of the parsed
\* list, total_successful the number of keys of results, the successes and
\* the errors entries add up to total_requested, and errors is null or
\* absent exactly when no symbol failed.
C25_BatchAccounting ==
    AcceptedBatch =>
        /\ resp.total_requested = Len(Requested)
        /\ resp.total_successful = Cardinality(DOMAIN resp.results)
        /\ resp.total_successful + Len(resp.errors) = resp.total_requested
        /\ resp.errors_field \in {"null", "absent"} <=> FailedPasses = {}

(***************************************************************************)
(* The life of a cache entry (specification Spec).                         *)
(***************************************************************************)
\* the keys whose entry is new or differs from the one before the step
Written == {k \in DOMAIN cache' : k \notin DOMAIN cache \/ cache'[k] # cache[k]}

\* C23: an entry is created or replaced only by a successful upstream fetch
\* for its key, and then as a whole (the quote returned and the time of the
\* call); nothing but clear removes an entry, and clear removes them all.
C23_EntryLifecycle ==
    [][/\ ~ClearStep => DOMAIN cache \subseteq DOMAIN cache'
       /\ ClearStep => cache' = <<>>
       /\ SingleStep =>
             \A k \in Written :
                 /\ k = KeyOf(resp'.symbol)
                 /\ resp'.status = 200
                 /\ calls' >= 1
                 /\ ~resp'.quote.isMocked
                 /\ cache'[k] = [data |-> resp'.quote, cached_at |-> now]]_vars

\* C24: in the strict variants a get_stock_data call that ends in an error
\* went upstream, returns no quote and leaves the cache as it was; the key
\* has no fresh entry afterwards, so the next call goes upstream again.
C24_ErrorLeavesCache ==
    [][(SingleStep /\ variant \in StrictVariants /\ resp'.status = 500) =>
           /\ cache' = cache
           /\ calls' >= 1
           /\ resp'.quote = NoQuoteOf(variant)
           /\ ~is_cache_valid(variant, cache', KeyOf(resp'.symbol), now')]_vars

\* an error answered while the key's entry, older than the TTL, is still
\* there with the quote it was stored with
C24_Witness ==
    /\ variant \in StrictVariants
    /\ resp.op = "single"
    /\ resp.status = 500
    /\ resp.at = now
    /\ calls >= 1
    /\ KeyOf(resp.symbol) \in DOMAIN cache
    /\ now - cache[KeyOf(resp.symbol)].cached_at > CACHE_DURATION(variant)
    /\ cache[KeyOf(resp.symbol)].data.timestamp = cache[KeyOf(resp.symbol)].cached_at
    /\ ~cache[KeyOf(resp.symbol)].data.isMocked


====
